---- MODULE Spec2Model ----
(***************************************************************************)
(* A model of har (src/src/h5.py): an HDF5-backed archiver with four       *)
(* verbs, create (-c), append (-r), extract (-x) and list (-t).            *)
(*                                                                         *)
(* Paths and keys are Python strings: here sequences of one-character      *)
(* strings, ordered by code point (Ord).  A payload is a sequence of byte  *)
(* values.  The HDF5 file is a set of groups plus a map from dataset       *)
(* names to uint8 arrays; the source file system is a map from file paths  *)
(* to payloads (a directory exists when a file lies below it); the         *)
(* extraction target is a set of directories plus a map of files.          *)
(***************************************************************************)
EXTENDS Integers, Sequences, FiniteSets, TLC

(***************************************************************************)
(* Bounds of the exploration.                                              *)
(***************************************************************************)
\* steps of one behaviour: invocations of main() and changes the user makes
\* to the source files between them
MaxSteps == 3

(***************************************************************************)
(* Strings.                                                                *)
(***************************************************************************)
\* code points of the characters used (Python compares str by code point)
Ord ==
  [ch \in {".", "/", "a", "b", "c", "d", "e", "o", "s", "t", "x", "~"} |->
     CASE ch = "." -> 46
       [] ch = "/" -> 47
       [] ch = "a" -> 97
       [] ch = "b" -> 98
       [] ch = "c" -> 99
       [] ch = "d" -> 100
       [] ch = "e" -> 101
       [] ch = "o" -> 111
       [] ch = "s" -> 115
       [] ch = "t" -> 116
       [] ch = "x" -> 120
       [] ch = "~" -> 126]

\* str.__lt__: the first differing character decides, else the shorter one
StrLess(s, t) ==
  LET n == IF Len(s) < Len(t) THEN Len(s) ELSE Len(t)
      diff == {i \in 1..n : s[i] # t[i]}
  IN IF diff = {}
       THEN Len(s) < Len(t)
       ELSE LET i == CHOOSE j \in diff : \A k \in diff : j <= k
            IN Ord[s[i]] < Ord[t[i]]

\* the positions of "/" in s
SlashAt(s) == {i \in 1..Len(s) : s[i] = "/"}

\* the largest element of a non-empty set of integers
MaxOf(S) == CHOOSE m \in S : \A k \in S : k <= m

\* the only element of a one-element set
The(S) == CHOOSE x \in S : TRUE

\* s.split('/'): the stretches between the slashes, empty ones included
Split(s) ==
  LET P == SlashAt(s)
      n == Cardinality(P)
      cut == [k \in 1..n |-> CHOOSE p \in P : Cardinality({q \in P : q < p}) = k - 1]
  IN [k \in 1..(n + 1) |->
        SubSeq(s, IF k = 1 THEN 1 ELSE cut[k - 1] + 1,
                  IF k = n + 1 THEN Len(s) ELSE cut[k] - 1)]

\* '/'.join(parts)
RECURSIVE JoinFrom(_, _)
JoinFrom(parts, i) ==
  IF i > Len(parts) THEN << >>
  ELSE IF i = Len(parts) THEN parts[i]
  ELSE parts[i] \o << "/" >> \o JoinFrom(parts, i + 1)

JoinSegs(parts) == JoinFrom(parts, 1)

\* s.rstrip('/')
RStripSlash(s) ==
  LET keep == {i \in 1..Len(s) : s[i] # "/"}
  IN IF keep = {} THEN << >> ELSE SubSeq(s, 1, MaxOf(keep))

(***************************************************************************)
(* os.path (posixpath).                                                    *)
(***************************************************************************)
\* the home directory os.path.expanduser substitutes for a leading "~"
HomeDir == << "/", "o" >>

\* os.path.expanduser: "~" and "~/..." are replaced, anything else is kept
Expanduser(p) ==
  IF p # << >> /\ p[1] = "~" /\ (Len(p) = 1 \/ p[2] = "/")
    THEN HomeDir \o Tail(p)
    ELSE p

\* os.path.join(a, b)
PathJoin(a, b) ==
  IF b # << >> /\ b[1] = "/" THEN b
  ELSE IF a = << >> \/ a[Len(a)] = "/" THEN a \o b
  ELSE a \o << "/" >> \o b

\* os.path.basename(p): what follows the last "/"
Basename(p) ==
  IF SlashAt(p) = {} THEN p ELSE SubSeq(p, MaxOf(SlashAt(p)) + 1, Len(p))

\* os.path.dirname(p): what precedes the last "/", trailing slashes stripped
\* unless it is all slashes
Dirname(p) ==
  IF SlashAt(p) = {} THEN << >>
  ELSE LET head == SubSeq(p, 1, MaxOf(SlashAt(p)))
       IN IF RStripSlash(head) = << >> THEN head ELSE RStripSlash(head)

\* the components of a path that os.path.abspath keeps: "" and "." are
\* dropped (the model's paths hold no "..")
IsComponent(x) == x # << >> /\ x # << "." >>

NormParts(p) == SelectSeq(Split(p), IsComponent)

\* the length of the longest common prefix of two sequences
CommonLen(a, b) ==
  LET n == IF Len(a) < Len(b) THEN Len(a) ELSE Len(b)
      same == {i \in 0..n : \A k \in 1..i : a[k] = b[k]}
  IN MaxOf(same)

\* os.path.relpath(path, start) for two paths relative to the same working
\* directory: ".." for every component of start past the common prefix, then
\* the rest of path; "." when nothing is left
Relpath(path, start) ==
  LET sl == NormParts(start)
      pl == NormParts(path)
      i == CommonLen(sl, pl)
      ups == [k \in 1..(Len(sl) - i) |-> << ".", "." >>]
      rel == ups \o SubSeq(pl, i + 1, Len(pl))
  IN IF rel = << >> THEN << "." >> ELSE JoinSegs(rel)

(***************************************************************************)
(* numpy: bytes <-> uint8 array.                                           *)
(***************************************************************************)
\* np.frombuffer(file_content, dtype=np.uint8): one uint8 per byte
\* the buffer read as text of seven-bit characters
FromBufferAscii(bytes) == [i \in 1..Len(bytes) |-> bytes[i] % 128]

FromBuffer(bytes) == [i \in 1..Len(bytes) |-> bytes[i] % 256]

\* ndarray.tobytes() of a uint8 array: one byte per element
ToBytes(arr) == [i \in 1..Len(arr) |-> arr[i] % 256]

(***************************************************************************)
(* The source file system.  fs maps the path of every regular file to its  *)
(* content; unreadable holds the files open() fails on; listing is the     *)
(* order in which the file system lists a directory's names.               *)
(***************************************************************************)
\* os.path.isfile(p)
IsFile(fs, p) ==
  /\ p # << >>
  /\ p[Len(p)] # "/"
  /\ JoinSegs(NormParts(p)) \in DOMAIN fs

\* the files of fs that lie below directory p
Below(fs, p) ==
  The({{f \in DOMAIN fs :
          \E nf \in {NormParts(f)} :
             Len(nf) > Len(np) /\ SubSeq(nf, 1, Len(np)) = np} :
       np \in {NormParts(p)}})

\* os.path.isdir(p)
IsDir(fs, p) == p # << >> /\ Below(fs, p) # {}

\* a set of strings as a sequence, in code-point order or its reverse
InOrder(S, listing) ==
  LET n == Cardinality(S)
      rank(x) == Cardinality({y \in S : StrLess(y, x)})
  IN [k \in 1..n |->
        CHOOSE x \in S : rank(x) = (IF listing = "asc" THEN k - 1 ELSE n - k)]

\* os.scandir(top): the names in directory top, in the file system's order
Scandir(fs, top, listing) ==
  InOrder({NormParts(f)[Len(NormParts(top)) + 1] : f \in Below(fs, top)}, listing)

\* for root, dirs, files in os.walk(source): for fname in files:
\* os.path.join(root, fname) -- top-down, a directory's own files first,
\* then its subdirectories in turn
RECURSIVE Walk(_, _, _)
RECURSIVE WalkEach(_, _, _, _, _)
Walk(fs, top, listing) ==
  LET Listed(names) ==
        LET files == SelectSeq(names, LAMBDA n : IsFile(fs, PathJoin(top, n)))
            dirs == SelectSeq(names, LAMBDA n : ~IsFile(fs, PathJoin(top, n)))
        IN [i \in 1..Len(files) |-> PathJoin(top, files[i])]
           \o WalkEach(fs, top, dirs, 1, listing)
  IN The({Listed(names) : names \in {Scandir(fs, top, listing)}})

WalkEach(fs, top, dirs, i, listing) ==
  IF i > Len(dirs) THEN << >>
  ELSE Walk(fs, PathJoin(top, dirs[i]), listing)
       \o WalkEach(fs, top, dirs, i + 1, listing)

(***************************************************************************)
(* h5py: the archive store.  An archive is [exists, groups, data]: whether *)
(* the file is on disk, the names of its groups, and its datasets.         *)
(***************************************************************************)
NoArchive == [exists |-> FALSE, groups |-> {}, data |-> << >>]

EmptyArchive == [exists |-> TRUE, groups |-> {}, data |-> << >>]

\* the names of the datasets of an archive: its entry keys
Keys(ar) == DOMAIN ar.data

\* h5py.File(path, mode): 'w' truncates, 'a' creates when missing, 'r' needs
\* the file
H5Open(ar, mode) ==
  CASE mode = "w" -> [ok |-> TRUE, ar |-> EmptyArchive]
    [] mode = "a" -> [ok |-> TRUE, ar |-> IF ar.exists THEN ar ELSE EmptyArchive]
    [] mode = "r" -> [ok |-> ar.exists, ar |-> ar]

\* name in h5fobj: a link of that name exists, to a dataset or to a group
Has(ar, name) == name \in Keys(ar) \cup ar.groups

\* the groups on the way to name: 's/t/b' lies in 's' and 's/t'
Ancestors(name) ==
  LET parts == Split(name)
  IN {JoinSegs(SubSeq(parts, 1, i)) : i \in 1..(Len(parts) - 1)}

\* h5fobj.require_group(path): creates the group and those on the way to it;
\* fails when one of them is a dataset
RequireGroup(ar, path) ==
  LET chain == Ancestors(path) \cup {path}
  IN IF chain \cap Keys(ar) # {}
       THEN [ok |-> FALSE, ar |-> ar]
       ELSE [ok |-> TRUE, ar |-> [ar EXCEPT !.groups = @ \cup chain]]

\* h5fobj.create_dataset(name, data=arr): fails when the name is taken (by a
\* dataset or a group) or a dataset is on the way to it
CreateDataset(ar, name, arr) ==
  IF Has(ar, name) \/ Ancestors(name) \cap Keys(ar) # {}
    THEN [ok |-> FALSE, ar |-> ar]
    ELSE [ok |-> TRUE,
          ar |-> [ar EXCEPT !.groups = @ \cup Ancestors(name),
                            !.data = @ @@ (name :> arr)]]

\* the names directly inside group grp ("" is the root group)
Children(ar, grp) ==
  {n \in Keys(ar) \cup ar.groups :
     IF grp = << >> THEN SlashAt(n) = {} ELSE Dirname(n) = grp}

\* h5fobj.visititems(fn): every object below the root, a group before its
\* members, the members of a group in the order of their names
RECURSIVE Visit(_, _)
RECURSIVE VisitEach(_, _, _)
Visit(ar, grp) ==
  The({VisitEach(ar, names, 1) : names \in {InOrder(Children(ar, grp), "asc")}})

VisitEach(ar, names, i) ==
  IF i > Len(names) THEN << >>
  ELSE << names[i] >>
       \o (IF names[i] \in ar.groups THEN Visit(ar, names[i]) ELSE << >>)
       \o VisitEach(ar, names, i + 1)

\* the visited objects that are datasets: isinstance(obj, h5py.Dataset)
DatasetsOf(ar, names) == SelectSeq(names, LAMBDA n : n \in Keys(ar))

(***************************************************************************)
(* pack_or_append_to_h5.  A pass carries [ar, out, puts, err]: the open    *)
(* archive, the lines printed, the names given to create_dataset, and the  *)
(* exception that ended the pass ("ok" while there is none).               *)
(***************************************************************************)
\* open(file_path, 'rb').read()
ReadFile(env, file_path) ==
  LET f == JoinSegs(NormParts(file_path))
  IN IF f \in DOMAIN env.fs /\ f \notin env.unreadable
       THEN [ok |-> TRUE, bytes |-> env.fs[f]]
       ELSE [ok |-> FALSE, bytes |-> << >>]

\* rel_path as it would be if the base were cut off by its length
RelPathBySlice(file_path, base_dir) ==
  IF base_dir # << >>
    THEN SubSeq(file_path, Len(base_dir) + 1, Len(file_path))
    ELSE Basename(file_path)

\* rel_path of process_file: relative to base_dir, or the base name when
\* base_dir is None (here the empty string: "if base_dir:")
RelPathOf(file_path, base_dir) ==
  IF base_dir # << >>
    THEN Relpath(file_path, base_dir)
    ELSE Basename(file_path)

\* the skip test of process_file
\* process_file without the test
NeverSkips(ar, rel_path, file_mode) == FALSE

SkipsExisting(ar, rel_path, file_mode) == file_mode = "a" /\ Has(ar, rel_path)

\* process_file, once rel_path is known
StoreAs(st, env, file_path, rel_path, file_mode) ==
  LET out1 == Append(st.out, << "Storing:", rel_path >>)
      group_path == Dirname(rel_path)
      rg == IF group_path # << >>
              THEN RequireGroup(st.ar, group_path)
              ELSE [ok |-> TRUE, ar |-> st.ar]
      rd == ReadFile(env, file_path)
      cd == CreateDataset(rg.ar, rel_path, FromBuffer(rd.bytes))
  IN IF SkipsExisting(st.ar, rel_path, file_mode)
       THEN [st EXCEPT !.out = Append(out1, << "Skipping", rel_path >>)]
     ELSE IF ~rg.ok
       THEN [st EXCEPT !.out = out1, !.err = "KeyConflict"]
     ELSE IF ~rd.ok
       THEN [st EXCEPT !.ar = rg.ar, !.out = out1, !.err = "IOFailure"]
     ELSE IF ~cd.ok
       THEN [st EXCEPT !.ar = rg.ar, !.out = out1, !.err = "KeyConflict"]
     ELSE [st EXCEPT !.ar = cd.ar, !.out = out1, !.puts = Append(@, rel_path)]

\* process_file(file_path, base_dir)
ProcessFile(st, env, file_path, base_dir, file_mode) ==
  The({StoreAs(st, env, file_path, rel_path, file_mode) :
         rel_path \in {RelPathOf(file_path, base_dir)}})

\* the files of one walked directory, in turn; an exception ends the pass
RECURSIVE ProcessFiles(_, _, _, _, _, _)
ProcessFiles(st, env, files, i, source, file_mode) ==
  IF i > Len(files) \/ st.err # "ok" THEN st
  ELSE The({ProcessFiles(nxt, env, files, i + 1, source, file_mode) :
              nxt \in {ProcessFile(st, env, files[i], source, file_mode)}})

\* the pass as it would be if a source that is neither ended it
ProcessSourceOrAbort(st, env, src, file_mode) ==
  LET source == Expanduser(src)
  IN IF IsDir(env.fs, source)
       THEN The({ProcessFiles(st, env, files, 1, source, file_mode) :
                   files \in {Walk(env.fs, source, env.listing)}})
     ELSE IF IsFile(env.fs, source)
       THEN ProcessFile(st, env, source, << >>, file_mode)
     ELSE [st EXCEPT !.out = Append(@, << "Warning:", source >>),
                     !.err = "InvalidSource"]

\* one pass of "for source in sources": a directory is walked, a file is
\* processed without base_dir, anything else is warned about and skipped
ProcessSource(st, env, src, file_mode) ==
  LET source == Expanduser(src)
  IN IF IsDir(env.fs, source)
       THEN The({ProcessFiles(st, env, files, 1, source, file_mode) :
                   files \in {Walk(env.fs, source, env.listing)}})
     ELSE IF IsFile(env.fs, source)
       THEN ProcessFile(st, env, source, << >>, file_mode)
     ELSE [st EXCEPT !.out = Append(@, << "Warning:", source >>)]

RECURSIVE ProcessSources(_, _, _, _, _)
ProcessSources(st, env, sources, i, file_mode) ==
  IF i > Len(sources) \/ st.err # "ok" THEN st
  ELSE The({ProcessSources(nxt, env, sources, i + 1, file_mode) :
              nxt \in {ProcessSource(st, env, sources[i], file_mode)}})

\* the file closed only where the block ends normally
CloseAtEnd(err) == IF err = "ok" THEN << "close" >> ELSE << >>

\* leaving "with h5py.File(...) as h5fobj": the file is closed, whether the
\* block ended normally or by an exception (sys.exit included)
WithExit(err) == << "close" >>

\* what pack_or_append_to_h5 leaves behind, given the pass st it made
PackResult(st) ==
  [ar |-> st.ar,
   out |-> IF st.err = "ok" THEN Append(st.out, << "Completed" >>) ELSE st.out,
   puts |-> st.puts,
   status |-> st.err,
   hlog |-> << "open" >> \o WithExit(st.err)]

\* pack_or_append_to_h5(sources, output_h5, file_mode)
PackOrAppend(env, ar, sources, file_mode) ==
  The({PackResult(st) :
         st \in {ProcessSources([ar |-> H5Open(ar, file_mode).ar, out |-> << >>,
                                 puts |-> << >>, err |-> "ok"],
                                env, sources, 1, file_mode)}})

(***************************************************************************)
(* extract_h5_to_directory and list_h5_contents.  The target is            *)
(* [dirs, files]: the directories that exist and the files with their      *)
(* content.  An extraction carries [tg, out, written, err].                *)
(***************************************************************************)
\* os.makedirs(path, exist_ok=True): fails when a file is in the way
Makedirs(tg, path) ==
  LET chain == Ancestors(path) \cup {path}
  IN IF chain \cap DOMAIN tg.files # {}
       THEN [ok |-> FALSE, tg |-> tg]
       ELSE [ok |-> TRUE, tg |-> [tg EXCEPT !.dirs = @ \cup chain]]

\* open(path, 'wb').write(bytes): fails on a directory; truncates a file
WriteFile(tg, path, bytes) ==
  IF path \in tg.dirs \/ Dirname(path) \notin tg.dirs
    THEN [ok |-> FALSE, tg |-> tg]
    ELSE [ok |-> TRUE,
          tg |-> [tg EXCEPT !.files =
                    [q \in DOMAIN @ \cup {path} |-> IF q = path THEN bytes ELSE @[q]]]]

\* the destination with the directories of the key dropped
DestFlat(extract_dir, name) == PathJoin(extract_dir, Basename(name))

\* the destination of an entry: os.path.join(extract_dir, name)
DestPath(extract_dir, name) == PathJoin(extract_dir, name)

\* the body shared by the single-key branch and extract_dataset, once the
\* destination is known: make the parent directories, read the dataset,
\* write the file
WriteTo(st, ar, name, dest_file_path) ==
  LET md == Makedirs(st.tg, Dirname(dest_file_path))
      wr == WriteFile(md.tg, dest_file_path, ToBytes(ar.data[name]))
  IN IF ~md.ok
       THEN [st EXCEPT !.err = "IOFailure"]
     ELSE IF name \notin Keys(ar)
       \* h5fobj[name] is a Group: group[()] raises TypeError
       THEN [st EXCEPT !.tg = md.tg, !.err = "TypeError"]
     ELSE IF ~wr.ok
       THEN [st EXCEPT !.tg = md.tg, !.err = "IOFailure"]
     ELSE [st EXCEPT !.tg = wr.tg,
                     !.out = Append(@, << "Extracted:", name >>),
                     !.written = Append(@, dest_file_path)]

Materialise(st, ar, extract_dir, name) ==
  The({WriteTo(st, ar, name, dest) : dest \in {DestPath(extract_dir, name)}})

\* h5fobj.visititems(extract_dataset) over the datasets, in turn
RECURSIVE MaterialiseAll(_, _, _, _, _)
MaterialiseAll(st, ar, extract_dir, names, i) ==
  IF i > Len(names) \/ st.err # "ok" THEN st
  ELSE The({MaterialiseAll(nxt, ar, extract_dir, names, i + 1) :
              nxt \in {Materialise(st, ar, extract_dir, names[i])}})

\* the test that sends a single-key extraction to the error exit
KeyMissing(ar, file_key) == ~Has(ar, file_key)

\* the "with" block of extract_h5_to_directory; file_key "" is as good as
\* None ("if file_key:")
ExtractPass(ar, tg, extract_dir, file_key) ==
  LET st0 == [tg |-> tg, out |-> << >>, written |-> << >>, err |-> "ok"]
  IN IF file_key # << >>
       THEN IF KeyMissing(ar, file_key)
              THEN [st0 EXCEPT !.out = << << "Error:", file_key >> >>,
                               !.err = "EntryNotFound"]
              ELSE Materialise(st0, ar, extract_dir, file_key)
       ELSE The({MaterialiseAll(st0, ar, extract_dir, names, 1) :
                   names \in {DatasetsOf(ar, Visit(ar, << >>))}})

\* what extract_h5_to_directory leaves behind, given the pass st it made
ExtractResult(st) ==
  [tg |-> st.tg,
   out |-> IF st.err = "ok" THEN Append(st.out, << "ExtractionComplete" >>)
                            ELSE st.out,
   written |-> st.written,
   status |-> st.err,
   hlog |-> << "open" >> \o WithExit(st.err)]

\* extract_h5_to_directory(h5_path, extract_dir, file_key)
ExtractTo(ar, tg, dir, file_key) ==
  IF ~H5Open(ar, "r").ok
    THEN [tg |-> tg, out |-> << >>, written |-> << >>,
          status |-> "ContainerNotFound", hlog |-> << "open_failed" >>]
    ELSE The({ExtractResult(st) :
                st \in {ExtractPass(ar, tg, Expanduser(dir), file_key)}})

\* the keys as visited
AsVisited(keys) == keys

\* sorted(keys)
SortedKeys(keys) == SortSeq(keys, StrLess)

\* the lines list_h5_contents prints for the visited dataset names
Listing(h5_path, keys) ==
  << << "Contents of", h5_path >> >> \o [i \in 1..Len(keys) |-> << "Key", keys[i] >>]

\* list_h5_contents(h5_path)
ListContents(ar, h5_path) ==
  IF ~H5Open(ar, "r").ok
    THEN [out |-> << >>, status |-> "ContainerNotFound",
          hlog |-> << "open_failed" >>]
    ELSE [out |-> The({Listing(Expanduser(h5_path), sorted) :
                         sorted \in {SortedKeys(DatasetsOf(ar, Visit(ar, << >>)))}}),
          status |-> "ok",
          hlog |-> << "open" >> \o WithExit("ok")]

(***************************************************************************)
(* The world the program runs in.                                          *)
(***************************************************************************)
\* the source tree: directory d with a, s.t and s/t/b (empty), and
\* directory e with c and s
FileDA == << "d", "/", "a" >>
FileDST == << "d", "/", "s", ".", "t" >>
FileDSTB == << "d", "/", "s", "/", "t", "/", "b" >>
FileEC == << "e", "/", "c" >>
FileES == << "e", "/", "s" >>

InitialFiles ==
  (FileDA :> << 104, 105 >>) @@ (FileDST :> << 255 >>) @@ (FileDSTB :> << >>)
  @@ (FileEC :> << 0 >>) @@ (FileES :> << 10 >>)

\* the source arguments tried: the directory (also written with a trailing
\* slash), two single files, and a path that does not exist
SrcD == << "d" >>
SrcDSlash == << "d", "/" >>
SrcEC == FileEC
SrcES == FileES
SrcX == << "x" >>

\* the source lists given to -c and -r
SourceLists ==
  { << >>,
    << SrcX, SrcX >>,
    << SrcD >>,
    << SrcES >>,
    << SrcES, SrcD >>,
    << SrcD, SrcDSlash >>,
    << SrcEC, SrcX, SrcDSlash >> }

\* the positional argument given to -x: none, names of entries, names of
\* groups, and a name no archive holds
KeyArgs ==
  { << >>,
    << "s" >>,
    << "s", "/", "t" >>,
    << "s", "/", "t", "/", "b" >>,
    << "b" >> }

\* -f and -C
ArchivePath == << "h", ".", "h", "5" >>
ExtractDir == << "o" >>

EmptyTarget == [dirs |-> {ExtractDir}, files |-> << >>]

VARIABLES
  fs,          \* the source files: path -> content
  unreadable,  \* the source files open() fails on
  listing,     \* the order in which directories list their names
  archive,     \* the HDF5 file at ArchivePath
  target,      \* the directory tree at ExtractDir
  last,        \* the last invocation: its arguments, what it reported, and
               \* the source files as they were
  before,      \* archive and target as they were when it started
  prev,        \* the invocation before it
  steps        \* steps so far

vars == << fs, unreadable, listing, archive, target, last, before, prev, steps >>

\* the files the user rewrites, and the one whose read permission goes
Rewritten == {FileDA, FileDSTB}
Protected == {FileDST}

Env == [fs |-> fs, unreadable |-> unreadable, listing |-> listing]

NoRun ==
  [verb |-> "none", args |-> << >>, status |-> "none", exit |-> 0, out |-> << >>,
   puts |-> << >>, written |-> << >>, hlog |-> << >>, fs |-> InitialFiles,
   unreadable |-> {}]

Init ==
  /\ fs = InitialFiles
  /\ unreadable = {}
  /\ listing \in {"asc", "desc"}
  /\ archive = NoArchive
  /\ target = EmptyTarget
  /\ last = NoRun
  /\ before = [archive |-> NoArchive, target |-> EmptyTarget]
  /\ prev = NoRun
  /\ steps = 0

\* the process exit status: 0 unless sys.exit(1) or an uncaught exception
ExitOf(status) == IF status = "ok" THEN 0 ELSE 1

\* what every invocation records
Ran(verb, args, res, puts, written) ==
  /\ last' = [verb |-> verb, args |-> args, status |-> res.status,
              exit |-> ExitOf(res.status), out |-> res.out, puts |-> puts,
              written |-> written, hlog |-> res.hlog, fs |-> fs,
              unreadable |-> unreadable]
  /\ before' = [archive |-> archive, target |-> target]
  /\ prev' = last
  /\ steps' = steps + 1
  /\ UNCHANGED << fs, unreadable, listing >>

\* main() as it would be if it also refused a list without any valid source
MainPackStrict(env, ar, sources, file_mode) ==
  IF \A i \in 1..Len(sources) :
       ~IsDir(env.fs, sources[i]) /\ ~IsFile(env.fs, sources[i])
    THEN [ar |-> ar, out |-> << << "Error:", << >> >> >>, puts |-> << >>,
          status |-> "NoSources", hlog |-> << >>]
    ELSE PackOrAppend(env, ar, sources, file_mode)

\* main() with -c or -r: "if not sources" is an error and exit 1 before
\* anything is opened
MainPack(env, ar, sources, file_mode) ==
  IF sources = << >>
    THEN [ar |-> ar, out |-> << << "Error:", << >> >> >>, puts |-> << >>,
          status |-> "NoSources", hlog |-> << >>]
    ELSE PackOrAppend(env, ar, sources, file_mode)

\* har -c -f ArchivePath sources...
Create(sources) ==
  /\ steps < MaxSteps
  /\ \E res \in {MainPack(Env, archive, sources, "w")} :
        /\ archive' = res.ar
        /\ Ran("create", sources, res, res.puts, << >>)
  /\ UNCHANGED target

\* har -r -f ArchivePath sources...
AppendTo(sources) ==
  /\ steps < MaxSteps
  /\ \E res \in {MainPack(Env, archive, sources, "a")} :
        /\ archive' = res.ar
        /\ Ran("append", sources, res, res.puts, << >>)
  /\ UNCHANGED target

\* har -x -f ArchivePath -C ExtractDir [key]
Extract(key) ==
  /\ steps < MaxSteps
  /\ \E res \in {ExtractTo(archive, target, ExtractDir, key)} :
        /\ target' = res.tg
        /\ Ran("extract", IF key = << >> THEN << >> ELSE << key >>, res,
               << >>, res.written)
  /\ UNCHANGED archive

\* har -t -f ArchivePath
List ==
  /\ steps < MaxSteps
  /\ \E res \in {ListContents(archive, ArchivePath)} :
        Ran("list", << >>, res, << >>, << >>)
  /\ UNCHANGED << archive, target >>

\* the user rewrites a source file between invocations: one more byte
ModifyFile(f) ==
  /\ steps < MaxSteps
  /\ fs' = [fs EXCEPT ![f] = Append(@, 255)]
  /\ steps' = steps + 1
  /\ UNCHANGED << unreadable, listing, archive, target, last, before, prev >>

\* the user takes the read permission of a source file away
Chmod(f) ==
  /\ steps < MaxSteps
  /\ f \notin unreadable
  /\ unreadable' = unreadable \cup {f}
  /\ steps' = steps + 1
  /\ UNCHANGED << fs, listing, archive, target, last, before, prev >>

Next ==
  \/ \E sources \in SourceLists : Create(sources)
  \/ \E sources \in SourceLists : AppendTo(sources)
  \/ \E key \in KeyArgs : Extract(key)
  \/ List
  \/ \E f \in Rewritten : ModifyFile(f)
  \/ \E f \in Protected : Chmod(f)

Spec == Init /\ [][Next]_vars

(***************************************************************************)
(* What the properties below speak of.                                     *)
(***************************************************************************)
\* the last invocation was -c or -r and reached pack_or_append_to_h5
Packed == last.verb \in {"create", "append"} /\ last.status # "NoSources"

\* a source that is neither a file nor a directory
Invalid(files, src) == ~IsDir(files, src) /\ ~IsFile(files, src)

\* the key file f must get under source src: its components past those of
\* the directory, joined by "/"; its last component for a single file
KeyFor(files, src, f) ==
  LET fp == NormParts(f)
      n == IF IsDir(files, src) THEN Len(NormParts(src)) ELSE Len(fp) - 1
  IN JoinSegs(SubSeq(fp, n + 1, Len(fp)))

\* the << key, file >> pairs a source stands for: the files below it if it
\* is a directory, itself if it is a file
PairsOf(files, src) ==
  IF IsDir(files, src)
    THEN {<< KeyFor(files, src, f), f >> : f \in Below(files, src)}
  ELSE IF IsFile(files, src)
    THEN {<< KeyFor(files, src, src), JoinSegs(NormParts(src)) >>}
  ELSE {}

\* the << key, file >> pairs a source list stands for
Pairs(files, srcs) == UNION {PairsOf(files, srcs[i]) : i \in 1..Len(srcs)}

\* the keys of the lines of out that carry tag
Tagged(out, tag) ==
  LET lines == SelectSeq(out, LAMBDA l : l[1] = tag)
  IN [i \in 1..Len(lines) |-> lines[i][2]]

\* the elements of a sequence
Range(seq) == {seq[i] : i \in 1..Len(seq)}

\* a non-empty relative path of non-empty components joined by "/"
WellFormedKey(k) ==
  /\ k # << >>
  /\ Range(Split(k)) \cap {<< >>, << "." >>, << ".", "." >>} = {}

(***************************************************************************)
(* Key derivation.                                                         *)
(***************************************************************************)
\* C8: every key create or append stores is a non-empty relative path of
\* non-empty components joined by "/" (no leading "/", no prefix of the
\* source directory): for a file below a directory source, the components
\* of its path past the directory; for a single-file source, its base name.
\* The key is then a dataset of the archive and every directory on the way
\* to it is a group.  A create that completes stores exactly these keys.
KeyDerivation ==
  Packed =>
    \E due \in {{pr[1] : pr \in Pairs(last.fs, last.args)}} :
      /\ \A k \in Keys(archive) : WellFormedKey(k)
      /\ \A i \in 1..Len(last.puts) :
           /\ last.puts[i] \in due
           /\ last.puts[i] \in Keys(archive)
           /\ Ancestors(last.puts[i]) \subseteq archive.groups
      /\ Range(Tagged(last.out, "Storing:")) \subseteq due
      /\ (last.verb = "create" /\ last.status = "ok") => Keys(archive) = due

\* a create that stored a single file under its base name and a file two
\* directories down under its relative path
KeyDerivationWitness ==
  /\ last.verb = "create"
  /\ last.status = "ok"
  /\ last.args = << SrcEC, SrcX, SrcDSlash >>
  /\ {<< "c" >>, << "s", "/", "t", "/", "b" >>} \subseteq Range(last.puts)
  /\ << "s", "/", "t" >> \in archive.groups

(***************************************************************************)
(* Sources that are neither a file nor a directory.                        *)
(***************************************************************************)
\* the sources of a list that are (bad) or are not invalid, in order
SourcesOf(files, srcs, bad) ==
  SelectSeq(srcs, LAMBDA src : Invalid(files, src) = bad)

\* out without its warnings
Unwarned(out) == SelectSeq(out, LAMBDA l : l[1] # "Warning:")

\* C7: in a create or append, each source that is neither a file nor a
\* directory gives exactly one warning and nothing else: archive, status
\* and the other lines are those of the same call on the list without these
\* sources, so the sources before and after are traversed as if it were not
\* there.  The call ends early only where process_file raised (its last line
\* is that file's "Storing:"), never at the warning; and when no put or read
\* fails it completes (exit 0), every file of every valid source is
\* traversed and then stored or skipped as existing, and a create archives
\* each with its bytes.
BadSourceTolerated ==
  Packed =>
    LET env == [fs |-> last.fs, unreadable |-> last.unreadable, listing |-> listing]
        mode == IF last.verb = "create" THEN "w" ELSE "a"
        stored == Range(Tagged(last.out, "Storing:"))
    IN /\ last.status \in {"ok", "KeyConflict", "IOFailure"}
       /\ \A i \in 1..Len(last.args) :
            Invalid(last.fs, last.args[i]) =>
              \E clean \in {PackOrAppend(env, before.archive,
                                         SourcesOf(last.fs, last.args, FALSE), mode)} :
                /\ archive = clean.ar
                /\ last.status = clean.status
                /\ Unwarned(last.out) = clean.out
       /\ last.status # "ok" => last.out[Len(last.out)][1] = "Storing:"
       /\ last.status = "ok" =>
            \E due \in {Pairs(last.fs, last.args)} :
              /\ last.exit = 0
              /\ last.out[Len(last.out)] = << "Completed" >>
              /\ Tagged(last.out, "Warning:") = SourcesOf(last.fs, last.args, TRUE)
              /\ \A pr \in due : pr[1] \in stored
              /\ stored = Range(last.puts) \cup Range(Tagged(last.out, "Skipping"))
              /\ last.verb = "create" =>
                   \A pr \in due :
                     /\ pr[1] \in Keys(archive)
                     /\ archive.data[pr[1]] = last.fs[pr[2]]

\* a create given a file, a path that does not exist and a directory: one
\* warning, the file and the directory's files archived, exit 0
BadSourceWitness ==
  /\ last.verb = "create"
  /\ last.args = << SrcEC, SrcX, SrcDSlash >>
  /\ last.status = "ok"
  /\ Tagged(last.out, "Warning:") = << SrcX >>
  /\ Keys(archive) = {<< "c" >>, << "a" >>, << "s", ".", "t" >>,
                      << "s", "/", "t", "/", "b" >>}

\* C9 as stated: a create whose sources are all neither file nor directory
\* fails (does not exit 0), while an invalid source among valid ones only
\* warns
AllInvalidCreateFails ==
  (last.verb = "create" /\ last.args # << >>) =>
    /\ (\A i \in 1..Len(last.args) : Invalid(last.fs, last.args[i]))
         => last.exit # 0
    /\ ((\E i \in 1..Len(last.args) : ~Invalid(last.fs, last.args[i]))
          /\ last.status = "ok")
         => Tagged(last.out, "Warning:") = SourcesOf(last.fs, last.args, TRUE)

\* C9, amended: a create whose sources are all neither file nor directory
\* completes (exit 0): one warning per source, and the archive is left
\* created and empty.  Create fails before opening anything only when the
\* source list is empty; with sources given it fails only where a put or a
\* read raised, which takes a valid source.  An invalid source among valid
\* ones only warns.
AllInvalidCreateCompletes ==
  last.verb = "create" =>
    /\ last.args = << >> =>
         /\ last.status = "NoSources" /\ last.exit = 1
         /\ archive = before.archive /\ last.hlog = << >>
    /\ (last.args # << >>
          /\ \A i \in 1..Len(last.args) : Invalid(last.fs, last.args[i])) =>
         /\ last.status = "ok" /\ last.exit = 0
         /\ archive = EmptyArchive
         /\ last.out = [i \in 1..Len(last.args) |-> << "Warning:", last.args[i] >>]
                       \o << << "Completed" >> >>
    /\ (last.args # << >> /\ last.exit # 0) =>
         /\ last.status \in {"KeyConflict", "IOFailure"}
         /\ \E i \in 1..Len(last.args) : ~Invalid(last.fs, last.args[i])
    /\ ((\E i \in 1..Len(last.args) : ~Invalid(last.fs, last.args[i]))
          /\ last.status = "ok")
         => Tagged(last.out, "Warning:") = SourcesOf(last.fs, last.args, TRUE)

\* a create given two paths that do not exist, which exits 0
AllInvalidWitness ==
  /\ last.verb = "create"
  /\ last.args = << SrcX, SrcX >>
  /\ last.exit = 0
  /\ archive = EmptyArchive

(***************************************************************************)
(* The archive handle.                                                     *)
(***************************************************************************)
\* C10: every call of a verb makes exactly one h5py.File(...): it either
\* fails to open, and there is no handle, or opens once and is closed once
\* by the time the verb returns or raises -- after the EntryNotFound exit and
\* after a put or a read that failed in the middle just as after a normal
\* end.  No invocation ends with the handle open.
HandleReleased ==
  /\ last.verb # "none" =>
       /\ last.hlog \in {<< >>, << "open_failed" >>, << "open", "close" >>}
       /\ last.hlog = << >> <=> last.status = "NoSources"
       /\ last.hlog = << "open_failed" >> <=> last.status = "ContainerNotFound"
  /\ last.hlog # << >> => last.hlog[Len(last.hlog)] # "open"

\* a create that had stored an entry when a read failed, the handle closed
HandleReleasedWitness ==
  /\ last.verb = "create"
  /\ last.status = "IOFailure"
  /\ last.puts # << >>
  /\ last.hlog = << "open", "close" >>

(***************************************************************************)
(* Create, then extract everything.                                        *)
(***************************************************************************)
\* C1: after a create that completed, extracting the whole archive into an
\* empty directory succeeds and writes, for every file of every source, a
\* file at ExtractDir/<key> with exactly the bytes the source file had
\* (none, for an empty file), <key> being the file's path relative to its
\* source root; it writes no other file.
RoundTrip ==
  (/\ last.verb = "extract" /\ last.args = << >>
   /\ prev.verb = "create" /\ prev.status = "ok"
   /\ before.target = EmptyTarget) =>
    /\ last.status = "ok"
    /\ \A pr \in Pairs(prev.fs, prev.args) :
         /\ PathJoin(ExtractDir, pr[1]) \in DOMAIN target.files
         /\ target.files[PathJoin(ExtractDir, pr[1])] = prev.fs[pr[2]]
    /\ DOMAIN target.files =
         {PathJoin(ExtractDir, pr[1]) : pr \in Pairs(prev.fs, prev.args)}
    /\ Range(last.written) = DOMAIN target.files

\* a directory with an empty file two levels down and a file holding byte 255,
\* and a single file, created and extracted into the empty directory
RoundTripWitness ==
  /\ last.verb = "extract" /\ last.args = << >> /\ last.status = "ok"
  /\ prev.verb = "create" /\ prev.status = "ok"
  /\ prev.args = << SrcEC, SrcX, SrcDSlash >>
  /\ before.target = EmptyTarget
  /\ target.files[<< "o", "/", "s", "/", "t", "/", "b" >>] = << >>
  /\ target.files[<< "o", "/", "s", ".", "t" >>] = << 255 >>
  /\ target.files[<< "o", "/", "c" >>] = << 0 >>

(***************************************************************************)
(* Append.                                                                 *)
(***************************************************************************)
\* C2: when append is run again with the same sources, unchanged, on the
\* archive the first append left, it performs no put and leaves the archive
\* as it was (same keys, same payloads, same groups) and ends as the first
\* run ended.  After a first run that completed, the second completes too
\* and reports every traversed entry as skipped; after a first run that a
\* failed put or read ended, the second skips every entry before that one
\* and fails on it again.
AppendIdempotent ==
  (/\ last.verb = "append" /\ prev.verb = "append"
   /\ last.args = prev.args /\ last.args # << >>
   /\ last.fs = prev.fs /\ last.unreadable = prev.unreadable) =>
    LET stored == Tagged(last.out, "Storing:")
        skipped == Tagged(last.out, "Skipping")
    IN /\ last.puts = << >>
       /\ archive = before.archive
       /\ last.status = prev.status
       /\ last.status = "ok" =>
            /\ skipped = stored
            /\ stored = Tagged(prev.out, "Storing:")
       /\ last.status # "ok" =>
            /\ stored = Tagged(prev.out, "Storing:")
            /\ skipped = SubSeq(stored, 1, Len(stored) - 1)

\* a second append of a file and a directory that the first append stored
AppendIdempotentWitness ==
  /\ last.verb = "append" /\ prev.verb = "append"
  /\ last.args = prev.args
  /\ last.fs = prev.fs /\ last.unreadable = prev.unreadable
  /\ prev.status = "ok" /\ Len(prev.puts) >= 3
  /\ last.status = "ok"
  /\ Len(Tagged(last.out, "Skipping")) >= 3

\* C3 as stated: after an append to an existing archive that completes,
\* every entry the archive had is still there with its payload, and every
\* traversed key that was no entry before is an entry afterwards, holding
\* the source file's bytes.
AppendAddsOrKeeps ==
  (/\ last.verb = "append" /\ last.status = "ok"
   /\ before.archive.exists) =>
    /\ \A k \in Keys(before.archive) :
         k \in Keys(archive) /\ archive.data[k] = before.archive.data[k]
    /\ \A pr \in Pairs(last.fs, last.args) :
         pr[1] \notin Keys(before.archive) =>
           /\ pr[1] \in Keys(archive)
           /\ archive.data[pr[1]] = last.fs[pr[2]]

(***************************************************************************)
(* Extracting one key.                                                     *)
(***************************************************************************)
\* C4 as stated: extract with a key that is no entry of the archive ends
\* with EntryNotFound and exit status 1, and leaves the target directory
\* (files and directories) and the archive as they were.
MissingKeyRefused ==
  (/\ last.verb = "extract" /\ last.args # << >>
   /\ archive.exists
   /\ last.args[1] \notin Keys(archive)) =>
    /\ last.status = "EntryNotFound"
    /\ last.exit = 1
    /\ target = before.target
    /\ archive = before.archive

\* the destination of a key cannot be written: a file stands where one of
\* its directories should, or a directory where the file should
Blocked(tg, dest) ==
  \/ Ancestors(dest) \cap DOMAIN tg.files # {}
  \/ dest \in tg.dirs

\* C5: extract with a key that names an entry writes exactly one file, at
\* ExtractDir/<key>, holding exactly the entry's bytes, after creating the
\* directories the key's segments need and no other; every other file of
\* the target stays as it was and no other entry is written.  Only where
\* the target directory already holds a file in the place of one of these
\* directories, or a directory in the place of the file, it fails with an
\* I/O error and writes nothing.
SelectiveExtraction ==
  (/\ last.verb = "extract" /\ last.args # << >>
   /\ last.args[1] \in Keys(archive)) =>
    LET key == last.args[1]
        dest == PathJoin(ExtractDir, key)
        blocked == Blocked(before.target, dest)
    IN /\ last.status = IF blocked THEN "IOFailure" ELSE "ok"
       /\ DOMAIN target.files \subseteq DOMAIN before.target.files \cup {dest}
       /\ \A q \in DOMAIN before.target.files \ {dest} :
            q \in DOMAIN target.files /\ target.files[q] = before.target.files[q]
       /\ ~blocked =>
            /\ last.written = << dest >>
            /\ last.out = << << "Extracted:", key >>, << "ExtractionComplete" >> >>
            /\ target.files[dest] = archive.data[key]
            /\ target.dirs = before.target.dirs \cup Ancestors(dest)
       /\ blocked =>
            /\ last.written = << >>
            /\ target.files = before.target.files

\* the entry two groups down extracted alone from an archive of four
SelectiveExtractionWitness ==
  /\ last.verb = "extract" /\ last.status = "ok"
  /\ last.args = << << "s", "/", "t", "/", "b" >> >>
  /\ Cardinality(Keys(archive)) = 4
  /\ before.target = EmptyTarget
  /\ DOMAIN target.files = {<< "o", "/", "s", "/", "t", "/", "b" >>}
  /\ << "o", "/", "s", "/", "t" >> \in target.dirs

(***************************************************************************)
(* Listing.                                                                *)
(***************************************************************************)
\* C6: list on an archive that exists prints a header naming the archive
\* path, then every entry key exactly once, in increasing lexicographic
\* order, and no group -- whatever create and the appends after it put in,
\* in whatever order.
ListingSorted ==
  last.verb = "list" =>
    /\ last.status = "ok" <=> archive.exists
    /\ last.status = "ok" =>
         LET keys == Tagged(last.out, "Key")
         IN /\ last.out[1] = << "Contents of", ArchivePath >>
            /\ Len(last.out) = 1 + Len(keys)
            /\ Range(keys) = Keys(archive)
            /\ Len(keys) = Cardinality(Keys(archive))
            /\ \A i, j \in 1..Len(keys) : i < j => StrLess(keys[i], keys[j])
            /\ Range(keys) \cap archive.groups = {}

\* the listing of an archive created from a file and appended to from a
\* directory with a subdirectory: four keys, and groups that are not listed
ListingSortedWitness ==
  /\ last.verb = "list" /\ last.status = "ok"
  /\ prev.verb = "append" /\ prev.status = "ok" /\ prev.puts # << >>
  /\ Tagged(last.out, "Key") =
       << << "a" >>, << "c" >>, << "s", ".", "t" >>, << "s", "/", "t", "/", "b" >> >>
  /\ archive.groups # {}

====
